---- MODULE Spec2Model ----
(***************************************************************************)
(* tokio-imap client: connection establishment (ImapConnectFuture in       *)
(* src/client/mod.rs, ConnectFuture in src/client.rs), command dispatch    *)
(* (Client::call), response streaming (ResponseStream::poll) and the       *)
(* request identifier generator (IdGenerator).                             *)
(*                                                                         *)
(* Option<T> is modelled as a sequence of length at most one: <<>> is      *)
(* None and <<x>> is Some(x).                                              *)
(***************************************************************************)
EXTENDS Integers, Sequences, FiniteSets, TLC

\* ------------------------------------------------------------- bounds
MaxCalls == 2        \* commands dispatched on one connection
MaxItems == 3        \* items (frames, read failures) the server side produces
MaxLatePolls == 1    \* polls of a stream after it yielded Done or an error
MaxIdCalls == 10001  \* calls of IdGenerator::next in the generator run

\* ------------------------------------------------------------- options
Some(x) == <<x>>
is_some(o) == o # <<>>
unwrap(o) == o[1]

\* ------------------------------------------------------------- identifiers
DigitChars == <<"0", "1", "2", "3", "4", "5", "6", "7", "8", "9">>

\* Decimal digits of n, most significant first (Display for u64).
RECURSIVE Decimal(_)
Decimal(n) ==
  IF n < 10 THEN <<DigitChars[n + 1]>>
  ELSE Append(Decimal(n \div 10), DigitChars[(n % 10) + 1])

\* {:04}: zero padding on the left up to a minimum width of 4.
RECURSIVE ZeroPad(_, _)
ZeroPad(s, width) ==
  IF Len(s) >= width THEN s ELSE ZeroPad(<<"0">> \o s, width)

IdWidth == 4
IdModulus == 10000

\* format!("A{:04}", n)
FormatId(n) == <<"A">> \o ZeroPad(Decimal(n), IdWidth)

\* IdGenerator::new
IdGenerator_new == [next |-> 0]

\* IdGenerator::next, mutated: the counter is formatted before it is incremented.
IdGenerator_next_stale(g) ==
  [gen |-> [next |-> g.next + 1], id |-> FormatId(g.next % IdModulus)]

\* IdGenerator::next: increments the counter, then formats it modulo 10000.
\* (u64 overflow needs 2^64 calls and is out of the model's range.)
IdGenerator_next(g) ==
  LET n == g.next + 1
  IN  [gen |-> [next |-> n], id |-> FormatId(n % IdModulus)]

\* ClientState::new, mutated: the generator does not start afresh.
ClientState_new_used == [state |-> "NotAuthenticated", request_ids |-> [next |-> 1]]

\* ClientState::new: NotAuthenticated, with a new generator.
ClientState_new == [state |-> "NotAuthenticated", request_ids |-> IdGenerator_new]

\* ------------------------------------------------------------- inputs
\* Command::into_parts gives (bytes, next_state).
Commands ==
  { [bytes |-> "LOGIN",  next_state |-> Some("Authenticated")],
    [bytes |-> "NOOP",   next_state |-> <<>>] }

\* What the framed transport can hand to a reader: a decoded frame, whose
\* request_id() is Some(id) or None, or a read/decode failure.
\* The server side's frames: an untagged one, the completion of the first
\* command reporting success or failure, and the completion of the second.
Frames ==
  { [kind |-> "frame", id |-> <<>>, st |-> "OK"],
    [kind |-> "frame", id |-> Some(FormatId(1)), st |-> "OK"],
    [kind |-> "frame", id |-> Some(FormatId(1)), st |-> "NO"],
    [kind |-> "frame", id |-> Some(FormatId(2)), st |-> "OK"] }
IoError == [kind |-> "error", id |-> <<>>, st |-> "ERR"]
Items == Frames \cup {IoError}

\* Results of to_socket_addrs: Err, or Ok with an iterator over the addresses.
Resolutions ==
  { [ok |-> FALSE, addrs |-> <<>>] }
  \cup { [ok |-> TRUE, addrs |-> a] : a \in { <<>>, <<"addr1">>, <<"addr2", "addr1">> } }

VARIABLES
  api,        \* which Client::connect was called: "none", "mod" (client/mod.rs), "rs" (client.rs)
  connectRet, \* what Client::connect returned: "none", "Err", "Future"
  resolved,   \* Option: what to_socket_addrs returned to Client::connect
  peer,       \* Option: the address TcpStream::connect was given
  net,        \* the connection as the network sees it
  fut,        \* the connect future (ImapConnectFuture / ConnectFuture)
  connected,  \* the results the connect future returned, other than NotReady
  rx,         \* items that arrived on the framed transport and are still unread
  closed,     \* the server closed the connection: nothing more will arrive
  emitted,    \* number of items the server side produced so far
  taken,      \* the items the transport's poll handed out, in order
  sent,       \* the requests whose send completed, in order
  client,     \* Option: the Client the caller holds
  streams,    \* the ResponseStreams created so far, in order of creation
  events,     \* per stream: the results poll returned, other than NotReady
  calls,      \* per stream: what Client::call was given
  late,       \* per stream: polls made after it yielded Done or an error
  login,      \* the LoginFuture of client.rs
  loginEvents,\* the results LoginFuture::poll returned, other than NotReady
  panicked,   \* the program panicked (an unwrap/expect failed)
  idgen,      \* generator run: the IdGenerator
  idCalls,    \* generator run: calls of next so far
  lastId      \* generator run: Option, the value of the latest call

vars == << api, connectRet, resolved, peer, net, fut, connected, rx, closed, emitted, taken,
           sent, client, streams, events, calls, late, login, loginEvents, panicked,
           idgen, idCalls, lastId >>

connVars == << api, connectRet, resolved, peer, net, fut, connected >>
chanVars == << rx, closed, emitted, taken >>
idVars   == << idgen, idCalls, lastId >>
loginVars == << login, loginEvents >>
streamVars == << streams, events, calls, late >>

NoFuture == [kind |-> "none", stage |-> "none", inner |-> "Empty", wrapped |-> FALSE]
NoLogin == [live |-> FALSE, future |-> "None", clst |-> <<>>]

Init ==
  /\ api = "none" /\ connectRet = "none" /\ resolved = <<>> /\ peer = <<>> /\ net = "idle"
  /\ fut = NoFuture /\ connected = <<>>
  /\ rx = <<>> /\ closed = FALSE /\ emitted = 0 /\ taken = <<>>
  /\ sent = <<>> /\ client = <<>>
  /\ streams = <<>> /\ events = <<>> /\ calls = <<>> /\ late = <<>>
  /\ login = NoLogin /\ loginEvents = <<>>
  /\ panicked = FALSE
  /\ idgen = IdGenerator_new /\ idCalls = 0 /\ lastId = <<>>

\* ------------------------------------------------------------- the network
\* The TCP connect started by TcpStream::connect completes or fails.
NetTcp ==
  /\ ~panicked /\ net = "connecting"
  /\ \E r \in {"tcp_up", "tcp_failed"} : net' = r
  /\ UNCHANGED << api, connectRet, resolved, peer, fut, connected, chanVars, sent, client,
                  streamVars, loginVars, panicked, idVars >>

\* The TLS handshake started by connect_async completes or fails.
NetTls ==
  /\ ~panicked /\ net = "handshaking"
  /\ \E r \in {"tls_up", "tls_failed"} : net' = r
  /\ UNCHANGED << api, connectRet, resolved, peer, fut, connected, chanVars, sent, client,
                  streamVars, loginVars, panicked, idVars >>

\* The server side produces the next item of the framed transport: a frame,
\* or bytes whose read or decoding fails.
ServerEmit ==
  /\ ~panicked /\ net = "tls_up" /\ ~closed /\ emitted < MaxItems
  /\ \E it \in Items : rx' = Append(rx, it)
  /\ emitted' = emitted + 1
  /\ UNCHANGED << connVars, closed, taken, sent, client, streamVars, loginVars,
                  panicked, idVars >>

\* The server closes the connection.
ServerClose ==
  /\ ~panicked /\ net = "tls_up" /\ ~closed
  /\ closed' = TRUE
  /\ UNCHANGED << connVars, rx, emitted, taken, sent, client, streamVars, loginVars,
                  panicked, idVars >>

\* Stream::poll of the framed transport: NotReady while nothing has arrived,
\* Ready(None) at the end of the connection, else the next item.
TransportPoll(q, cl) ==
  IF q = <<>>
  THEN [ret |-> IF cl THEN "End" ELSE "NotReady", item |-> IoError, q |-> q, got |-> <<>>]
  ELSE [ret |-> IF Head(q).kind = "error" THEN "Err" ELSE "Item",
        item |-> Head(q), q |-> Tail(q), got |-> <<Head(q)>>]

\* ------------------------------------------------------------- client/mod.rs: connect
\* Client::connect (client/mod.rs): resolves (server, 993); a resolution error
\* or an empty result returns Err, else the first address is connected to.
Client_connect ==
  /\ ~panicked /\ api = "none"
  /\ api' = "mod"
  /\ \E res \in Resolutions :
       /\ resolved' = Some(res)
       /\ IF ~res.ok \/ res.addrs = <<>>
          THEN connectRet' = "Err" /\ UNCHANGED << peer, net, fut >>
          ELSE /\ connectRet' = "Future"
               /\ peer' = Some(Head(res.addrs))
               /\ net' = "connecting"
               /\ fut' = [kind |-> "ImapConnectFuture", stage |-> "TcpConnecting",
                          inner |-> "Waiting", wrapped |-> FALSE]
  /\ UNCHANGED << connected, chanVars, sent, client, streamVars, loginVars,
                  panicked, idVars >>

\* The stage installed once the TCP connect has resolved, mutated: the stream
\* is framed at once, without a TLS handshake.
AfterTcp_framed(f) ==
  [f EXCEPT !.stage = "ServerGreeting", !.inner = "Empty", !.wrapped = TRUE]

\* The stage installed once the TCP connect has resolved (lines 135-141):
\* TlsHandshake, holding the handshake future just started.
AfterTcp(f) == [f EXCEPT !.stage = "TlsHandshake", !.inner = "Waiting"]

\* What poll does once it has installed a new stage, mutated: it returns
\* NotReady and leaves the new stage to the next call.
Installed_returns == "NotReady"

\* What poll does once it has installed a new stage (lines 139-141, 148-150):
\* it goes on to the next `if let` block of the same call.
Installed == "Go"

\* The read of the greeting, mutated: everything that has arrived is taken
\* from the transport with it.
GreetingRead_drain(q, cl) ==
  LET r == TransportPoll(q, cl) IN [r EXCEPT !.q = <<>>, !.got = q]

\* The read of the greeting (line 152): one poll of the framed transport.
GreetingRead(q, cl) == TransportPoll(q, cl)

\* One call of ImapConnectFuture::poll on future f, with the network in state n
\* and the transport holding q (cl: closed). The three `if let` blocks run in
\* order in the same call; try_ready! returns early on NotReady and on Err and
\* leaves the stage as it is. The stage futures of tokio panic when polled
\* again after they resolved (inner = "Empty").
ImapConnectFuture_run(f, n, q, cl) ==
  LET stop(ret, g, m) == [ret |-> ret, f |-> g, n |-> m, q |-> q, got |-> <<>>, msg |-> IoError]
      tcp ==
        IF f.stage # "TcpConnecting" THEN stop("Go", f, n)
        ELSE IF f.inner = "Empty" THEN stop("Panic", f, n)
        ELSE IF n = "connecting" THEN stop("NotReady", f, n)
        ELSE IF n = "tcp_failed" THEN stop("Err", [f EXCEPT !.inner = "Empty"], n)
        ELSE stop(Installed, AfterTcp(f), "handshaking")
      tls ==
        IF tcp.ret # "Go" \/ tcp.f.stage # "TlsHandshake" THEN tcp
        ELSE IF tcp.f.inner = "Empty" THEN stop("Panic", tcp.f, tcp.n)
        ELSE IF tcp.n = "handshaking" THEN stop("NotReady", tcp.f, tcp.n)
        ELSE IF tcp.n = "tls_failed" THEN stop("Err", [tcp.f EXCEPT !.inner = "Empty"], tcp.n)
        ELSE stop(Installed, [tcp.f EXCEPT !.stage = "ServerGreeting", !.inner = "Empty",
                                           !.wrapped = TRUE], tcp.n)
      r == GreetingRead(q, cl)
  IN  IF tls.ret # "Go" THEN tls
      ELSE IF ~tls.f.wrapped THEN stop("Panic", tls.f, tls.n)
      ELSE IF r.ret = "NotReady" THEN stop("NotReady", tls.f, tls.n)
      ELSE IF r.ret = "End" THEN stop("Panic", tls.f, tls.n)
      ELSE IF r.ret = "Err"
      THEN [ret |-> "Err", f |-> tls.f, n |-> tls.n, q |-> r.q, got |-> r.got, msg |-> IoError]
      ELSE [ret |-> "Ready", f |-> [tls.f EXCEPT !.wrapped = FALSE], n |-> tls.n,
            q |-> r.q, got |-> r.got, msg |-> r.item]

\* What the connect future hands to its caller.
ConnectErr == [type |-> "Err", client |-> <<>>, greeting |-> <<>>]
ConnectReady(c, msg) == [type |-> "Ready", client |-> Some(c), greeting |-> Some(msg)]

\* ImapConnectFuture::poll: on success yields (Client, greeting), the Client
\* built from the transport and ClientState::new().
ImapConnectFuture_poll ==
  /\ ~panicked /\ fut.kind = "ImapConnectFuture"
  /\ LET r == ImapConnectFuture_run(fut, net, rx, closed)
         c == [state |-> ClientState_new]
     IN  /\ fut' = r.f /\ net' = r.n /\ rx' = r.q
         /\ taken' = taken \o r.got
         /\ panicked' = (r.ret = "Panic")
         /\ connected' = IF r.ret = "Err" THEN Append(connected, ConnectErr)
                         ELSE IF r.ret = "Ready" THEN Append(connected, ConnectReady(c, r.msg))
                         ELSE connected
         /\ client' = IF r.ret = "Ready" THEN Some(c) ELSE client
  /\ UNCHANGED << api, connectRet, resolved, peer, closed, emitted, sent, streamVars, loginVars, idVars >>

\* ------------------------------------------------------------- client/mod.rs: call
\* ResponseStream::new
ResponseStream_new(state, request_id, next_state) ==
  [future |-> "Some", transport |-> FALSE, state |-> Some(state),
   request_id |-> request_id, next_state |-> next_state, done |-> FALSE,
   dropped |-> FALSE]

\* What is left with the caller of Client::call, mutated: call borrows the Client.
CallerAfterCall_kept(c) == Some(c)

\* What is left with the caller of Client::call(self, ..): self is moved.
CallerAfterCall(c) == <<>>

\* Client::call: takes the next identifier from the Client's generator, starts
\* the send of Request(id, bytes) and moves transport and state into the stream.
Client_call ==
  /\ ~panicked /\ api = "mod" /\ is_some(client) /\ Len(streams) < MaxCalls
  /\ \E cmd \in Commands :
       LET c == unwrap(client)
           g == IdGenerator_next(c.state.request_ids)
           state == [c.state EXCEPT !.request_ids = g.gen]
       IN  /\ streams' = Append(streams, ResponseStream_new(state, g.id, cmd.next_state))
           /\ events' = Append(events, <<>>)
           /\ late' = Append(late, 0)
           /\ calls' = Append(calls, [bytes |-> cmd.bytes, next_state |-> cmd.next_state,
                                      phase |-> c.state.state, base |-> Len(taken)])
           /\ client' = CallerAfterCall(c)
  /\ UNCHANGED << connVars, chanVars, sent, loginVars, panicked, idVars >>

\* The done flag after frame rsp was read, mutated: a frame without identifier
\* ends the exchange too.
DoneAfter_untagged(s, rsp) ==
  IF is_some(rsp.id) THEN unwrap(rsp.id) = s.request_id ELSE TRUE

\* The done flag after frame rsp was read, mutated: the status of the frame is
\* looked at, and a failure does not end the exchange.
DoneAfter_status(s, rsp) ==
  IF is_some(rsp.id) THEN unwrap(rsp.id) = s.request_id /\ rsp.st = "OK" ELSE s.done

\* The done flag after frame rsp was read, mutated: any identified frame ends the exchange.
DoneAfter_any(s, rsp) == IF is_some(rsp.id) THEN TRUE ELSE s.done

\* The done flag after frame rsp was read (lines 106-108): set from the
\* comparison when the frame has an identifier, left alone otherwise.
DoneAfter(s, rsp) == IF is_some(rsp.id) THEN unwrap(rsp.id) = s.request_id ELSE s.done

\* The ClientState of the Done event, mutated: the Client gets a new generator.
DoneState_reset(s) ==
  [state |-> IF is_some(s.next_state) THEN unwrap(s.next_state) ELSE unwrap(s.state).state,
   request_ids |-> IdGenerator_new]

\* The ClientState of the Done event, mutated: the declared state is dropped.
DoneState_ignored(s) == unwrap(s.state)

\* The ClientState of the Done event (lines 97-100): the stream's state, with
\* state.state replaced by next_state when that is Some.
DoneState(s) ==
  IF is_some(s.next_state)
  THEN [unwrap(s.state) EXCEPT !.state = unwrap(s.next_state)]
  ELSE unwrap(s.state)

\* The stream after a failed read, mutated: the transport is put back.
AfterReadErr_kept(s) == [s EXCEPT !.transport = TRUE]

\* The stream after a failed read (lines 112-114): the transport taken at
\* line 95 is not put back.
AfterReadErr(s) == [s EXCEPT !.transport = FALSE]

\* The transport read of the poll that yields Done, mutated: the poll reads
\* the transport before it looks at the done flag.
DoneRead_ahead(q, cl) ==
  LET r == TransportPoll(q, cl) IN [q |-> r.q, got |-> r.got]

\* The transport read of the poll that yields Done (lines 96-103): none, the
\* poll returns before transport.poll() at line 104.
DoneRead(q, cl) == [q |-> q, got |-> <<>>]

\* The stream after its Send future returned NotReady, mutated: the pending
\* send is taken for a completed one.
SendPending_taken(s) == [s EXCEPT !.future = "None", !.transport = TRUE]

\* The stream after its Send future returned NotReady (lines 83-86): the
\* future is put back and nothing else changes.
SendPending(s) == s

\* Results of polling the Send future of the request.
SendResults == {"NotReady", "Ready", "Err"}

\* One call of ResponseStream::poll on stream s; snd is what the Send future
\* returns if it is polled, q the transport's unread items (cl: closed).
ResponseStream_run(s, snd, q, cl) ==
  LET out(ret, t) == [ret |-> ret, s |-> t, q |-> q, got |-> <<>>, rsp |-> IoError,
                      state |-> <<>>, flushed |-> FALSE]
      polled == s.future = "Some"
      s1 == IF polled /\ snd = "Ready" THEN [s EXCEPT !.future = "None", !.transport = TRUE]
            ELSE IF polled /\ snd = "Err" THEN [s EXCEPT !.future = "None"]
            ELSE s
      flushed == polled /\ snd = "Ready"
      r == TransportPoll(q, cl)
  IN  IF polled /\ snd = "NotReady" THEN out("NotReady", SendPending(s1))
      ELSE IF polled /\ snd = "Err" THEN out("Err", s1)
      ELSE IF ~s1.transport THEN [out("NotReady", s1) EXCEPT !.flushed = flushed]
      ELSE IF s1.done
      THEN IF ~is_some(s1.state)
           THEN [out("Panic", [s1 EXCEPT !.transport = FALSE]) EXCEPT !.flushed = flushed]
           ELSE [out("Done", [s1 EXCEPT !.transport = FALSE, !.state = <<>>, !.next_state = <<>>])
                   EXCEPT !.state = Some(DoneState(s1)), !.flushed = flushed,
                          !.q = DoneRead(q, cl).q, !.got = DoneRead(q, cl).got]
      ELSE IF r.ret = "Item"
      THEN [ret |-> "Next", s |-> [s1 EXCEPT !.done = DoneAfter(s1, r.item)],
            q |-> r.q, got |-> r.got, rsp |-> r.item, state |-> <<>>, flushed |-> flushed]
      ELSE IF r.ret = "Err"
      THEN [ret |-> "Err", s |-> AfterReadErr(s1), q |-> r.q, got |-> r.got,
            rsp |-> IoError, state |-> <<>>, flushed |-> flushed]
      ELSE [out("NotReady", s1) EXCEPT !.flushed = flushed]

\* What ResponseStream::poll hands to its caller.
StreamEvent(o) ==
  [type |-> o.ret,
   rsp |-> IF o.ret = "Next" THEN Some(o.rsp) ELSE <<>>,
   client |-> IF o.ret = "Done" THEN Some([state |-> unwrap(o.state)]) ELSE <<>>]

\* A stream has ended once it yielded Done or an error.
Ended(i) == events[i] # <<>> /\ events[i][Len(events[i])].type \in {"Done", "Err"}

\* ResponseStream::poll on the i-th stream.
ResponseStream_poll(i) ==
  /\ ~panicked /\ ~streams[i].dropped
  /\ Ended(i) => late[i] < MaxLatePolls
  /\ \E snd \in (IF streams[i].future = "Some" THEN SendResults ELSE {"Ready"}) :
       LET o == ResponseStream_run(streams[i], snd, rx, closed)
           ev == StreamEvent(o)
       IN  /\ streams' = [streams EXCEPT ![i] = o.s]
           /\ rx' = o.q
           /\ taken' = taken \o o.got
           /\ sent' = IF o.flushed
                      THEN Append(sent, [id |-> streams[i].request_id, bytes |-> calls[i].bytes])
                      ELSE sent
           /\ panicked' = (o.ret = "Panic")
           /\ events' = IF o.ret \in {"Next", "Done", "Err"}
                        THEN [events EXCEPT ![i] = Append(@, ev)] ELSE events
           /\ client' = IF o.ret = "Done" THEN ev.client ELSE client
           /\ late' = IF Ended(i) THEN [late EXCEPT ![i] = @ + 1] ELSE late
  /\ UNCHANGED << connVars, closed, emitted, calls, loginVars, idVars >>

\* The caller discards the i-th stream before it has yielded Done: every field
\* it owns (send future, transport, state) is dropped with it.
ResponseStream_drop(i) ==
  /\ ~panicked /\ ~streams[i].dropped
  /\ \A k \in 1..Len(events[i]) : events[i][k].type # "Done"
  /\ streams' = [streams EXCEPT ![i] = [@ EXCEPT !.dropped = TRUE, !.future = "None",
                                                 !.transport = FALSE, !.state = <<>>,
                                                 !.next_state = <<>>]]
  /\ UNCHANGED << connVars, chanVars, sent, client, events, calls, late, loginVars,
                  panicked, idVars >>

\* ------------------------------------------------------------- client.rs
\* Client::connect (client.rs): unwraps the resolution and its first address,
\* so a failed or empty resolution panics; else starts the TCP connect.
Client_connect_rs ==
  /\ ~panicked /\ api = "none"
  /\ api' = "rs"
  /\ \E res \in Resolutions :
       /\ resolved' = Some(res)
       /\ IF ~res.ok \/ res.addrs = <<>>
          THEN panicked' = TRUE /\ UNCHANGED << connectRet, peer, net, fut >>
          ELSE /\ connectRet' = "Future"
               /\ peer' = Some(Head(res.addrs))
               /\ net' = "connecting"
               /\ fut' = [kind |-> "ConnectFuture", stage |-> "TcpConnecting",
                          inner |-> "Waiting", wrapped |-> FALSE]
               /\ UNCHANGED panicked
  /\ UNCHANGED << connected, chanVars, sent, client, streamVars, loginVars, idVars >>

\* One call of ConnectFuture::poll (client.rs); the same three blocks as
\* ImapConnectFuture::poll.
ConnectFuture_run(f, n, q, cl) ==
  LET stop(ret, g, m) == [ret |-> ret, f |-> g, n |-> m, q |-> q, got |-> <<>>, msg |-> IoError]
      tcp ==
        IF f.stage # "TcpConnecting" THEN stop("Go", f, n)
        ELSE IF f.inner = "Empty" THEN stop("Panic", f, n)
        ELSE IF n = "connecting" THEN stop("NotReady", f, n)
        ELSE IF n = "tcp_failed" THEN stop("Err", [f EXCEPT !.inner = "Empty"], n)
        ELSE stop("Go", [f EXCEPT !.stage = "TlsHandshake", !.inner = "Waiting"], "handshaking")
      tls ==
        IF tcp.ret # "Go" \/ tcp.f.stage # "TlsHandshake" THEN tcp
        ELSE IF tcp.f.inner = "Empty" THEN stop("Panic", tcp.f, tcp.n)
        ELSE IF tcp.n = "handshaking" THEN stop("NotReady", tcp.f, tcp.n)
        ELSE IF tcp.n = "tls_failed" THEN stop("Err", [tcp.f EXCEPT !.inner = "Empty"], tcp.n)
        ELSE stop("Go", [tcp.f EXCEPT !.stage = "ServerGreeting", !.inner = "Empty",
                                      !.wrapped = TRUE], tcp.n)
      r == TransportPoll(q, cl)
  IN  IF tls.ret # "Go" THEN tls
      ELSE IF ~tls.f.wrapped THEN stop("Panic", tls.f, tls.n)
      ELSE IF r.ret = "NotReady" THEN stop("NotReady", tls.f, tls.n)
      ELSE IF r.ret = "End" THEN stop("Panic", tls.f, tls.n)
      ELSE IF r.ret = "Err"
      THEN [ret |-> "Err", f |-> tls.f, n |-> tls.n, q |-> r.q, got |-> r.got, msg |-> IoError]
      ELSE [ret |-> "Ready", f |-> [tls.f EXCEPT !.wrapped = FALSE], n |-> tls.n,
            q |-> r.q, got |-> r.got, msg |-> r.item]

\* ConnectFuture::poll (client.rs): on success yields the Client, whose state
\* is NotAuthenticated and holds the greeting.
ConnectFuture_poll ==
  /\ ~panicked /\ fut.kind = "ConnectFuture"
  /\ LET r == ConnectFuture_run(fut, net, rx, closed)
         c == [state |-> [state |-> "NotAuthenticated", server_greeting |-> r.msg]]
     IN  /\ fut' = r.f /\ net' = r.n /\ rx' = r.q
         /\ taken' = taken \o r.got
         /\ panicked' = (r.ret = "Panic")
         /\ connected' = IF r.ret = "Err" THEN Append(connected, ConnectErr)
                         ELSE IF r.ret = "Ready" THEN Append(connected, ConnectReady(c, r.msg))
                         ELSE connected
         /\ client' = IF r.ret = "Ready" THEN Some(c) ELSE client
  /\ UNCHANGED << api, connectRet, resolved, peer, closed, emitted, sent, streamVars, loginVars, idVars >>

\* The identifier written by Client::login (client.rs): the literal a001.
LoginTag == <<"a", "0", "0", "1">>

\* Client::login (client.rs): moves the Client into a LoginFuture that sends
\* "a001 LOGIN account password".
Client_login ==
  /\ ~panicked /\ api = "rs" /\ is_some(client) /\ Len(loginEvents) < MaxCalls
  /\ login' = [live |-> TRUE, future |-> "Pending", clst |-> Some(unwrap(client).state)]
  /\ client' = <<>>
  /\ UNCHANGED << connVars, chanVars, sent, streamVars, loginEvents, panicked, idVars >>

\* LoginFuture::poll (client.rs): once the send has completed, sets the state
\* to Authenticated and yields the Client. The Send future panics when polled
\* after it returned the transport; after an error it can be polled again.
LoginFuture_poll ==
  /\ ~panicked /\ login.live /\ Len(loginEvents) <= MaxCalls
  /\ IF login.future = "Done"
     THEN panicked' = TRUE /\ UNCHANGED << login, loginEvents, client, sent >>
     ELSE \E snd \in SendResults :
            /\ UNCHANGED panicked
            /\ IF snd = "NotReady" THEN UNCHANGED << login, loginEvents, client, sent >>
               ELSE IF snd = "Err"
               THEN /\ loginEvents' = Append(loginEvents, [type |-> "Err", client |-> <<>>])
                    /\ UNCHANGED << login, client, sent >>
               ELSE LET state == [unwrap(login.clst) EXCEPT !.state = "Authenticated"]
                    IN  /\ login' = [login EXCEPT !.future = "Done", !.clst = <<>>]
                        /\ sent' = Append(sent, [id |-> LoginTag, bytes |-> "LOGIN"])
                        /\ client' = Some([state |-> state])
                        /\ loginEvents' = Append(loginEvents,
                                                 [type |-> "Ready", client |-> Some([state |-> state])])
  /\ UNCHANGED << connVars, chanVars, streamVars, idVars >>

\* ------------------------------------------------------------- generator run
\* One more call of IdGenerator::next on the generator under test.
IdGenerator_call ==
  /\ idCalls < MaxIdCalls
  /\ LET g == IdGenerator_next(idgen)
     IN  idgen' = g.gen /\ lastId' = Some(g.id)
  /\ idCalls' = idCalls + 1
  /\ UNCHANGED << connVars, chanVars, sent, client, streamVars, loginVars, panicked >>

\* ------------------------------------------------------------- specifications
Next ==
  \/ Client_connect
  \/ Client_connect_rs
  \/ NetTcp
  \/ NetTls
  \/ ServerEmit
  \/ ServerClose
  \/ ImapConnectFuture_poll
  \/ ConnectFuture_poll
  \/ Client_call
  \/ \E i \in 1..Len(streams) : ResponseStream_poll(i)
  \/ \E i \in 1..Len(streams) : ResponseStream_drop(i)
  \/ Client_login
  \/ LoginFuture_poll

Spec == Init /\ [][Next]_vars

\* The caller keeps polling the streams it holds.
FairSpec == Spec /\ WF_vars(\E i \in 1..Len(streams) : ResponseStream_poll(i))

IdNext == IdGenerator_call

IdSpec == Init /\ [][IdNext]_vars

\* ------------------------------------------------------------- helpers of the claims
StreamIds == 1..Len(streams)
Last(q) == q[Len(q)]
Types(ev) == [k \in 1..Len(ev) |-> ev[k].type]
IsNext(e) == e.type = "Next"
IsFrame(it) == it.kind = "frame"

\* The items the transport handed out during the i-th exchange.
Segment(i) ==
  SubSeq(taken, calls[i].base + 1,
         IF i < Len(streams) THEN calls[i + 1].base ELSE Len(taken))

\* The frames the i-th stream yielded as Next events, in the order it yielded them.
NextFrames(i) ==
  LET nx == SelectSeq(events[i], IsNext)
  IN  [k \in 1..Len(nx) |-> unwrap(nx[k].rsp)]

Carries(e, id) == e.type = "Next" /\ unwrap(e.rsp).id = Some(id)

A0001 == <<"A", "0", "0", "0", "1">>

\* C1: the Next events of an exchange are exactly the frames the transport
\* produced during it, in the transport's order; Done is yielded only right
\* after the Next event of the frame carrying the command's identifier, that
\* frame is the last Next event, and nothing is yielded after Done.
C1_OrderedThenDone ==
  \A i \in StreamIds :
    LET ev == events[i]
        id == streams[i].request_id
    IN  /\ NextFrames(i) = SelectSeq(Segment(i), IsFrame)
        /\ \A k \in 1..Len(ev) :
              /\ ev[k].type = "Done" =>
                    k = Len(ev) /\ k > 1 /\ Carries(ev[k - 1], id)
              /\ (Carries(ev[k], id) /\ k < Len(ev)) =>
                    k + 1 = Len(ev) /\ ev[k + 1].type = "Done"
        /\ (ev # <<>> /\ Carries(Last(ev), id) /\ ~streams[i].dropped) =>
              streams[i].done /\ streams[i].transport

C1_Witness ==
  \E i \in StreamIds :
    /\ Types(events[i]) = <<"Next", "Next", "Done">>
    /\ unwrap(events[i][1].rsp).id # Some(streams[i].request_id)
    /\ late[i] >= 1

Count(b) == IF b THEN 1 ELSE 0
HoldingStreams == { i \in StreamIds : is_some(streams[i].state) }
InFlight == { i \in StreamIds : streams[i].future = "Some" \/ streams[i].transport }

\* C2: the Session is never in two places: the caller's Client, the state of a
\* stream and the state of a login future exclude each other; at most one
\* stream is in flight, and none while the caller holds the Client; a Client
\* in the caller's hands after a dispatch is the one the latest stream's Done
\* event carried.
C2_OneOwner ==
  /\ Count(is_some(client)) + Cardinality(HoldingStreams) + Count(is_some(login.clst)) <= 1
  /\ Cardinality(InFlight) <= 1
  /\ is_some(client) => InFlight = {}
  /\ \A i \in InFlight : i = Len(streams)
  /\ (is_some(client) /\ streams # <<>>) =>
        LET ev == events[Len(streams)]
        IN  ev # <<>> /\ Last(ev).type = "Done" /\ Last(ev).client = client

C2_Witness ==
  /\ Len(streams) = 2 /\ client = <<>>
  /\ HoldingStreams = {2} /\ InFlight = {2}
  /\ Last(events[1]).type = "Done"

HasErr(i) == \E k \in 1..Len(events[i]) : events[i][k].type = "Err"
HasDone(i) == \E k \in 1..Len(events[i]) : events[i][k].type = "Done"

\* C3: a failed read of an exchange is reported by an error event; a stream
\* that has lost its send future and its transport without Done has reported
\* the error; the error is the stream's last event (no Next, no Done after
\* it), and no Client exists and no stream is created after it.
C3_ErrorEndsExchange ==
  \A i \in StreamIds :
    /\ (\E k \in 1..Len(Segment(i)) : ~IsFrame(Segment(i)[k])) => HasErr(i)
    /\ (streams[i].future = "None" /\ ~streams[i].transport
           /\ ~streams[i].dropped /\ ~HasDone(i)) => HasErr(i)
    /\ HasErr(i) =>
          /\ Last(events[i]).type = "Err"
          /\ \A k \in 1..(Len(events[i]) - 1) : events[i][k].type = "Next"
          /\ client = <<>>
          /\ i = Len(streams)
          /\ InFlight = {}

C3_Witness ==
  \E i \in StreamIds :
    /\ Types(events[i]) = <<"Next", "Err">>
    /\ ~IsFrame(Last(Segment(i)))
    /\ late[i] >= 1

\* C4: the Client of a Done event has the declared next state when the
\* command declared one, and the state the Client had at dispatch otherwise.
C4_DonePhase ==
  \A i \in StreamIds : \A k \in 1..Len(events[i]) :
    events[i][k].type = "Done" =>
      unwrap(events[i][k].client).state.state =
        IF is_some(calls[i].next_state) THEN unwrap(calls[i].next_state) ELSE calls[i].phase

C4_Witness ==
  /\ Len(streams) = 2 /\ HasDone(1) /\ HasDone(2)
  /\ calls[1].phase = "NotAuthenticated" /\ calls[1].next_state = Some("Authenticated")
  /\ calls[2].phase = "Authenticated" /\ calls[2].next_state = <<>>
  /\ unwrap(client).state.state = "Authenticated"

\* The identifier the k-th call is to give: A, then the four decimal digits
\* of k mod 10000.
ExpectedId(k) ==
  LET m == k % 10000
  IN  <<"A", DigitChars[(m \div 1000) + 1], DigitChars[((m \div 100) % 10) + 1],
        DigitChars[((m \div 10) % 10) + 1], DigitChars[(m % 10) + 1]>>

\* C5: the k-th call of a fresh generator gives A followed by k mod 10000 as
\* four zero-padded digits: A0001 first, A9999 at 9999, A0000 at 10000 and
\* A0001 again at 10001.
C5_KthIdentifier ==
  idCalls >= 1 =>
    /\ lastId = Some(ExpectedId(idCalls))
    /\ idCalls = 1 => lastId = Some(A0001)
    /\ idCalls = 9999 => lastId = Some(<<"A", "9", "9", "9", "9">>)
    /\ idCalls = 10000 => lastId = Some(<<"A", "0", "0", "0", "0">>)
    /\ idCalls = 10001 => lastId = Some(A0001)

C5_Witness == idCalls = 10001 /\ lastId = Some(A0001)

\* The send of the i-th command has completed.
SendCompleted(i) == i <= Len(streams) /\ streams[i].future = "None" /\ ~HasErr(i)

\* The channel has delivered, or will not deliver, what ends the i-th
\* exchange: the frame carrying its identifier or a failure has arrived, or
\* the connection has ended.
ChannelDecided(i) ==
  \/ closed
  \/ \E k \in 1..Len(rx) : ~IsFrame(rx[k]) \/ rx[k].id = Some(streams[i].request_id)

\* The i-th stream has reached a terminal outcome (or was discarded, or the
\* program has stopped).
StreamOver(i) == i <= Len(streams) /\ (Ended(i) \/ streams[i].dropped \/ panicked)

\* C6: once the command is sent and the channel has delivered the frame
\* carrying its identifier, has failed or has ended, a stream that keeps
\* being polled eventually yields Done or an error.
C6_StreamTerminates ==
  \A i \in 1..MaxCalls : (SendCompleted(i) /\ ChannelDecided(i)) ~> StreamOver(i)

IsReady(e) == e.type = "Ready"
Yielded == SelectSeq(connected, IsReady)
FramesTaken == SelectSeq(taken, IsFrame)

ConnectFailed == \E k \in 1..Len(connected) : connected[k].type = "Err"

\* C8: once the connect future has returned an error (TCP connect, TLS
\* handshake or greeting read failed), it never yields a Client: no Ready
\* result, on that poll or on a later one, and no Client with the caller.
C8_FailedConnectYieldsNoClient ==
  ConnectFailed => Yielded = <<>> /\ client = <<>>

NoAddress == is_some(resolved) /\ (~unwrap(resolved).ok \/ unwrap(resolved).addrs = <<>>)

\* C9: when resolution yields no address Client::connect returns an error
\* value: nothing panics, no TCP connect is started, no connect future and no
\* Client exist. When it yields addresses the first is the one connected to.
C9_NoAddressIsAnError ==
  /\ NoAddress =>
        /\ ~panicked /\ connectRet = "Err"
        /\ net = "idle" /\ peer = <<>> /\ fut.kind = "none" /\ client = <<>>
  /\ (is_some(resolved) /\ ~NoAddress) => peer = Some(unwrap(resolved).addrs[1])

\* C10: a stream discarded before it yielded Done takes the Session with it:
\* the caller holds no Client, nothing holds the transport or the state, and
\* no stream is created on the connection afterwards.
C10_DropLosesSession ==
  \A i \in StreamIds :
    streams[i].dropped =>
      /\ client = <<>>
      /\ i = Len(streams)
      /\ HoldingStreams = {} /\ InFlight = {}
      /\ ~HasDone(i)

C10_Witness ==
  \E i \in StreamIds :
    /\ streams[i].dropped /\ streams[i].done
    /\ events[i] # <<>> /\ Carries(Last(events[i]), streams[i].request_id)

\* The i-th stream yields Done in this step.
YieldsDone(i) ==
  /\ i <= Len(events) /\ Len(events'[i]) = Len(events[i]) + 1
  /\ events'[i][Len(events'[i])].type = "Done"

\* The i-th stream yields, in this step, the frame carrying its identifier.
YieldsTagged(i) ==
  /\ i <= Len(events) /\ Len(events'[i]) = Len(events[i]) + 1
  /\ Carries(events'[i][Len(events'[i])], streams[i].request_id)

\* C11: the poll that reads the frame carrying the command's identifier
\* yields it as Next and not Done; the poll that yields Done follows it and
\* reads nothing, so the unread frames stay on the channel of the Client it
\* returns; the exchange has taken no item beyond that frame, and the next
\* exchange on the Client starts reading right after it.
C11_DoneLeavesChannel ==
  /\ [][\A i \in 1..MaxCalls :
          /\ YieldsTagged(i) =>
               /\ taken' = Append(taken, unwrap(Last(events'[i]).rsp))
               /\ rx # <<>> /\ rx' = Tail(rx) /\ client' = <<>>
          /\ YieldsDone(i) =>
               /\ rx' = rx /\ taken' = taken
               /\ Carries(Last(events[i]), streams[i].request_id)
               /\ Last(taken) = unwrap(Last(events[i]).rsp)
               /\ is_some(client')]_vars
  /\ [](\A i \in 1..MaxCalls :
          (i <= Len(streams) /\ HasDone(i)) =>
             /\ Segment(i) # <<>>
             /\ Last(Segment(i)).id = Some(streams[i].request_id)
             /\ Len(Segment(i)) = Len(events[i]) - 1
             /\ i < Len(streams) =>
                  /\ taken[calls[i + 1].base].id = Some(streams[i].request_id)
                  /\ NextFrames(i + 1) = SelectSeq(Segment(i + 1), IsFrame))

C11_Witness ==
  /\ Len(streams) = 2 /\ HasDone(1)
  /\ events[2] # <<>> /\ events[2][1].type = "Next"
  /\ unwrap(events[2][1].rsp) = taken[calls[2].base + 1]

\* The request of the i-th stream has been handed to the network: its Send
\* future has returned the transport.
Flushed(i) == i <= Len(sent) /\ sent[i].id = streams[i].request_id

\* C12: while the Send future of a stream is pending the stream has yielded
\* nothing, holds no transport and no item has been taken from the transport
\* on its behalf; a poll that leaves the send pending changes nothing; the
\* send future goes away only by completing or failing, and a stream that has
\* read an item or yielded Next or Done has completed its send before.
C12_NothingBeforeSend ==
  /\ [](\A i \in 1..MaxCalls : i <= Len(streams) =>
          /\ streams[i].future = "Some" =>
               /\ events[i] = <<>> /\ ~streams[i].transport /\ ~streams[i].done
               /\ Segment(i) = <<>> /\ ~Flushed(i)
          /\ (Segment(i) # <<>> \/ \E k \in 1..Len(events[i]) :
                                      events[i][k].type \in {"Next", "Done"}) =>
               Flushed(i) /\ streams[i].future = "None")
  /\ [][\A i \in 1..MaxCalls :
          (i <= Len(streams) /\ streams[i].future = "Some") =>
             /\ streams'[i].future = "Some" =>
                  /\ streams'[i] = streams[i] /\ events'[i] = events[i]
                  /\ rx' \in {rx} \cup {Append(rx, it) : it \in Items}
                  /\ taken' = taken /\ sent' = sent /\ client' = client
             /\ (streams'[i].future = "None" /\ ~streams'[i].dropped) =>
                  \/ Flushed(i)' /\ streams'[i].transport = ~HasErr(i)'
                  \/ ~Flushed(i)' /\ ~streams'[i].transport
                       /\ events'[i] = <<StreamEvent([ret |-> "Err"])>>]_vars

C12_Witness ==
  /\ Len(streams) = 1 /\ streams[1].future = "Some"
  /\ rx # <<>> /\ IsFrame(Head(rx)) /\ Head(rx).id = Some(streams[1].request_id)

\* The position of a stage of the connect future in the order of establishment.
StageRank(st) ==
  CASE st = "none" -> 0
    [] st = "TcpConnecting" -> 1
    [] st = "TlsHandshake" -> 2
    [] st = "ServerGreeting" -> 3

\* The connect future has yielded its Client.
ConnectDone == \E k \in 1..Len(connected) : connected[k].type = "Ready"

\* C13: the connect future is in one stage at a time and moves only forward,
\* one stage at a time: it leaves TcpConnecting only once the TCP connect has
\* succeeded, and only then is a handshake started; it leaves TlsHandshake
\* only once the handshake has succeeded, and only then does it hold and read
\* a framed transport; it yields a Client only in ServerGreeting, with the
\* handshake succeeded.
C13_StagesForward ==
  /\ [](/\ fut.stage \in {"none", "TcpConnecting", "TlsHandshake", "ServerGreeting"}
        /\ fut.stage = "none" <=> connectRet # "Future"
        /\ fut.stage = "TcpConnecting" => net \in {"connecting", "tcp_up", "tcp_failed"}
        /\ fut.stage = "TlsHandshake" => net \in {"handshaking", "tls_up", "tls_failed"}
        /\ fut.stage = "ServerGreeting" => net = "tls_up"
        /\ (fut.wrapped \/ taken # <<>> \/ ConnectDone) => fut.stage = "ServerGreeting"
        /\ ConnectDone => ~fut.wrapped)
  /\ [][/\ StageRank(fut'.stage) \in {StageRank(fut.stage), StageRank(fut.stage) + 1}
        /\ (fut.stage = "TcpConnecting" /\ fut'.stage # fut.stage) =>
             net = "tcp_up" /\ net' = "handshaking" /\ fut'.stage = "TlsHandshake"
        /\ (fut.stage = "TlsHandshake" /\ fut'.stage # fut.stage) =>
             net = "tls_up" /\ fut'.stage = "ServerGreeting"
        /\ (net' = "handshaking" /\ net # "handshaking") =>
             fut.stage = "TcpConnecting" /\ net = "tcp_up"
        /\ (~ConnectDone /\ ConnectDone') =>
             net = "tls_up" /\ fut'.stage = "ServerGreeting" /\ Len(taken') = Len(taken) + 1]_vars

C13_Witness ==
  /\ api = "mod" /\ ConnectDone /\ fut.stage = "ServerGreeting" /\ Len(taken) = 1

\* The operation of the stage future f is in, is pending: network in state n,
\* transport holding q (cl: closed).
StagePending(f, n, q, cl) ==
  \/ f.stage = "TcpConnecting" /\ f.inner = "Waiting" /\ n = "connecting"
  \/ f.stage = "TlsHandshake" /\ f.inner = "Waiting" /\ n = "handshaking"
  \/ f.stage = "ServerGreeting" /\ f.wrapped /\ q = <<>> /\ ~cl

\* What a poll of the connect future returns in the current state.
ConnectPollNow ==
  IF fut.kind = "ImapConnectFuture" THEN ImapConnectFuture_run(fut, net, rx, closed)
  ELSE ConnectFuture_run(fut, net, rx, closed)

\* C14: a poll of the connect future returns NotReady only if the operation of
\* the stage it leaves the future in is pending, and it never returns between
\* the installation of a stage and the first poll of that stage: a step that
\* changes the stage ends with the new stage's operation pending, or with the
\* result (Ready, Err or a panic) of the poll of the new stage.
C14_NoReturnBetweenStages ==
  /\ []((fut.kind # "none" /\ ~panicked) =>
          /\ ConnectPollNow.ret \in {"NotReady", "Ready", "Err", "Panic"}
          /\ ConnectPollNow.ret = "NotReady" =>
               StagePending(ConnectPollNow.f, ConnectPollNow.n, ConnectPollNow.q, closed))
  /\ [][fut'.stage # fut.stage /\ fut.stage # "none" =>
          \/ StagePending(fut', net', rx', closed') /\ connected' = connected
          \/ Len(connected') = Len(connected) + 1 /\ taken' # taken
          \/ panicked']_vars

C14_Witness ==
  /\ api = "mod" /\ fut.stage = "ServerGreeting" /\ fut.wrapped /\ connected = <<>>
  /\ rx = <<>> /\ taken = <<>> /\ ~closed /\ ~panicked

\* C15: the connect future takes no frame from the transport but the one it
\* yields as the greeting, and nothing is sent before it: the step that yields
\* the Client takes one frame, the first one the transport produced, and leaves
\* the rest unread; until a command is dispatched on the Client that frame is
\* the only one taken, and a request is written only after it was taken.
C15_OnlyGreetingConsumed ==
  /\ [](/\ ~ConnectDone => FramesTaken = <<>> /\ sent = <<>> /\ client = <<>>
        /\ (ConnectDone /\ streams = <<>>) =>
             /\ Len(FramesTaken) = 1 /\ Last(taken) = FramesTaken[1]
             /\ Some(FramesTaken[1]) = Yielded[1].greeting
        /\ sent # <<>> => ConnectDone /\ FramesTaken # <<>>)
  /\ [][(~ConnectDone /\ ConnectDone') =>
          /\ rx # <<>> /\ rx' = Tail(rx) /\ taken' = Append(taken, Head(rx))
          /\ IsFrame(Head(rx)) /\ Last(connected').greeting = Some(Head(rx))
          /\ sent' = <<>>]_vars

C15_Witness ==
  /\ api = "mod" /\ ConnectDone /\ is_some(client) /\ streams = <<>>
  /\ Len(rx) = 2 /\ Len(taken) = 1

\* The phase of the session, wherever it is held: by the caller, by a stream
\* or by a login future; None when there is no session.
SessionPhase ==
  IF is_some(client) THEN Some(unwrap(client).state.state)
  ELSE IF HoldingStreams # {}
  THEN Some(unwrap(streams[CHOOSE i \in HoldingStreams : TRUE].state).state)
  ELSE IF is_some(login.clst) THEN Some(unwrap(login.clst).state)
  ELSE <<>>

\* C16: the phase of a session is NotAuthenticated when the connect future
\* yields it and changes only in a step in which a stream whose command
\* declared a next state yields Done, right after the Next event of the frame
\* carrying the command's identifier; no other step (dispatch, login, send
\* completion, Next, error) changes it, and a session is in another phase only
\* if such a frame was taken from the transport after the greeting.
C16_PhaseOnlyAtDone ==
  /\ [](/\ (ConnectDone /\ streams = <<>> /\ loginEvents = <<>>) =>
             SessionPhase \in {<<>>, Some("NotAuthenticated")}
        /\ SessionPhase \notin {<<>>, Some("NotAuthenticated")} =>
             \E k \in 2..Len(taken) : IsFrame(taken[k]) /\ is_some(taken[k].id))
  /\ [][(SessionPhase # <<>> /\ SessionPhase' # <<>> /\ SessionPhase' # SessionPhase) =>
          \E i \in 1..MaxCalls :
            /\ YieldsDone(i) /\ is_some(calls[i].next_state)
            /\ Carries(Last(events[i]), streams[i].request_id)
            /\ SessionPhase' = calls[i].next_state]_vars

\* The generator of the session, wherever the session is held (client/mod.rs).
SessionIds ==
  IF is_some(client) THEN Some(unwrap(client).state.request_ids)
  ELSE IF HoldingStreams # {}
  THEN Some(unwrap(streams[CHOOSE i \in HoldingStreams : TRUE].state).request_ids)
  ELSE <<>>

\* C17: the generator moves with the session and is never reset: the k-th
\* stream created on a connection has the identifier of number k, given to it
\* by the call that created it, its request is sent under that identifier, and
\* the generator of the session has made as many identifiers as there were
\* dispatches, whatever the commands declared and the streams yielded.
C17_KthDispatchKthId ==
  /\ [](api = "mod" =>
          /\ \A k \in 1..Len(streams) : streams[k].request_id = ExpectedId(k)
          /\ \A k \in 1..Len(sent) : sent[k].id = ExpectedId(k) /\ sent[k].bytes = calls[k].bytes
          /\ is_some(SessionIds) => unwrap(SessionIds).next = Len(streams))
  /\ [][Len(streams') = Len(streams) + 1 =>
          /\ is_some(client) /\ streams'[Len(streams')].request_id = ExpectedId(Len(streams'))
          /\ SessionIds' = Some([next |-> unwrap(SessionIds).next + 1])]_vars

C17_Witness ==
  /\ Len(streams) = 2 /\ HasDone(1) /\ Len(events[1]) >= 3 /\ Len(sent) = 2
  /\ calls[1].next_state # <<>>
  /\ sent[2].id = <<"A", "0", "0", "0", "2">>

\* C18: the done flag of a stream is set only while the last frame the stream
\* yielded carries the stream's identifier; a frame without identifier or with
\* another one is yielded as Next, leaves the flag unset and is not followed
\* by Done; every Done event comes right after the Next event of a frame with
\* the stream's identifier.
C18_OnlyOwnIdEnds ==
  \A i \in StreamIds :
    /\ streams[i].done <=>
         (NextFrames(i) # <<>> /\ Last(NextFrames(i)).id = Some(streams[i].request_id))
    /\ \A k \in 1..Len(events[i]) :
         /\ (events[i][k].type = "Next" /\ ~Carries(events[i][k], streams[i].request_id)
               /\ k < Len(events[i])) => events[i][k + 1].type # "Done"
         /\ events[i][k].type = "Done" =>
              k > 1 /\ Carries(events[i][k - 1], streams[i].request_id)
    /\ NextFrames(i) = SelectSeq(Segment(i), IsFrame)

C18_Witness ==
  /\ Len(streams) = 1 /\ ~streams[1].done /\ streams[1].transport
  /\ Len(NextFrames(1)) = 2
  /\ NextFrames(1)[1].id = <<>>
  /\ NextFrames(1)[2].id = Some(<<"A", "0", "0", "0", "2">>)

\* The status reported by the frame that carries the identifier of the i-th
\* stream, None while the stream has not yielded such a frame.
CompletionStatus(i) ==
  IF NextFrames(i) # <<>> /\ Last(NextFrames(i)).id = Some(streams[i].request_id)
  THEN Some(Last(NextFrames(i)).st) ELSE <<>>

\* C19: the stream looks at nothing but the identifier of a frame: the frame
\* carrying the stream's identifier sets the done flag whatever status it
\* reports, and the Client of the Done event then has the declared next state,
\* so a command declaring Authenticated yields an Authenticated Client after a
\* tagged OK and after a tagged NO alike.
C19_StatusNotInspected ==
  \A i \in StreamIds :
    /\ is_some(CompletionStatus(i)) => streams[i].done
    /\ HasDone(i) =>
         /\ CompletionStatus(i) \in {Some("OK"), Some("NO")}
         /\ is_some(calls[i].next_state) =>
              unwrap(Last(events[i]).client).state.state = unwrap(calls[i].next_state)
    /\ \A f \in Frames, g \in Frames :
         f.id = g.id => DoneAfter(streams[i], f) = DoneAfter(streams[i], g)

C19_Witness ==
  /\ Len(streams) = 1 /\ HasDone(1) /\ calls[1].next_state = Some("Authenticated")
  /\ CompletionStatus(1) = Some("NO")
  /\ is_some(client) /\ unwrap(client).state.state = "Authenticated"

\* The server has closed the connection and the connect future has not got a
\* greeting frame.
ClosedBeforeGreeting == closed /\ FramesTaken = <<>> /\ ~ConnectDone

\* C20: when the connection ends after the handshake and before a greeting
\* frame has arrived, the connect future does not abort the program (it is to
\* return an error).
C20_EarlyCloseIsAnError ==
  ClosedBeforeGreeting => ~panicked

====
